---- MODULE Spec2Model ----
(***************************************************************************)
(* A model of the SARAL chatbot pipeline (src/src/saral_chatbot): the      *)
(* session orchestrator SaralChatbot (pipeline.py), the retriever and      *)
(* vector store (retrieval/), the chunker (ingestion/chunker.py), the      *)
(* safety filter and the two generators (generation/).                     *)
(*                                                                         *)
(* Text is a TLA+ string, i.e. a sequence of characters: Len, \o and       *)
(* SubSeq act on it character by character as Python's len, + and slices   *)
(* do.  Python's None is the empty tuple <<>> and a present optional value *)
(* v is <<v>>.  Floating-point scores are fixed-point integers (see        *)
(* cosine).  Timestamps and the session uuid are left out: no operation    *)
(* reads them.                                                             *)
(***************************************************************************)
EXTENDS Integers, Sequences, FiniteSets, TLC

VARIABLES
    retriever,        \* SaralChatbot.retriever: None or <<[chunks, embeddings]>>
    sources_path,     \* SaralChatbot.sources_path: None or <<path>>
    current_output,   \* SaralChatbot.current_output: None or <<GenerationOutput>>
    heap,             \* the ContentBlock objects, by address (1..Len(heap))
    conversation,     \* SaralChatbot.conversation.turns
    result,           \* the last call on the session: None or <<[op, status, ret]>>
    succeeded,        \* number of generate/revise_section calls that returned
    use_llm,          \* SaralChatbot.use_llm, fixed at construction
    vstore,           \* a VectorStore on its own: [chunks, embeddings]
    found,            \* its last similarity_search: None or <<[query, k, results]>>
    probe             \* a generator call on its own: None or <<[args, out]>>

vars == <<retriever, sources_path, current_output, heap, conversation,
          result, succeeded, use_llm, vstore, found, probe>>

sessionVars == <<retriever, sources_path, current_output, heap, conversation,
                 result, succeeded, use_llm>>

None == <<>>
Some(v) == <<v>>

(***************************************************************************)
(* Bounds of the model.                                                    *)
(***************************************************************************)
MaxCalls == 2        \* generate/revise_section calls that may succeed
MaxTopK == 2
MaxIndex == 1
MaxStore == 3        \* chunks added to the VectorStore on its own
MaxMatches == 2      \* retrieval matches handed to a generator on its own
MaxApply == 2        \* applications of one directive to one text

(***************************************************************************)
(* Python string primitives.                                               *)
(***************************************************************************)
Min(S) == CHOOSE x \in S : \A y \in S : x <= y
Max(S) == CHOOSE x \in S : \A y \in S : x >= y

Ch(s, i) == SubSeq(s, i, i)

Drop(s, n) == SubSeq(s, n + 1, Len(s))

\* s[:n] for n >= 0
Take(s, n) == SubSeq(s, 1, IF n < Len(s) THEN n ELSE Len(s))

IsSpace(c) == c \in {" ", "\n", "\t"}

UpperCase == "ABCDEFGHIJKLMNOPQRSTUVWXYZ"
LowerCase == "abcdefghijklmnopqrstuvwxyz"

UpperSet == {Ch(UpperCase, i) : i \in 1..26}

LowerOf == [c \in UpperSet |-> Ch(LowerCase, CHOOSE i \in 1..26 : Ch(UpperCase, i) = c)]

LowerCh(c) == IF c \in UpperSet THEN LowerOf[c] ELSE c

\* s.lower(), by halves to keep the recursion shallow
RECURSIVE Lower(_)
Lower(s) ==
    IF Len(s) = 0 THEN ""
    ELSE IF Len(s) = 1 THEN LowerCh(s)
    ELSE Lower(Take(s, Len(s) \div 2)) \o Lower(Drop(s, Len(s) \div 2))

RECURSIVE LStrip(_)
LStrip(s) == IF Len(s) > 0 /\ IsSpace(Ch(s, 1)) THEN LStrip(Drop(s, 1)) ELSE s

RECURSIVE RStrip(_)
RStrip(s) ==
    IF Len(s) > 0 /\ IsSpace(Ch(s, Len(s))) THEN RStrip(Take(s, Len(s) - 1)) ELSE s

Strip(s) == RStrip(LStrip(s))

\* str.split(): the maximal runs of non-whitespace characters
RECURSIVE Split(_)
Split(s) ==
    LET t == LStrip(s)
        sp == {i \in 1..Len(t) : IsSpace(Ch(t, i))}
        n == IF sp = {} THEN Len(t) + 1 ELSE Min(sp)
    IN  IF t = "" THEN <<>> ELSE <<Take(t, n - 1)>> \o Split(Drop(t, n - 1))

\* sep.join(parts)
RECURSIVE Join(_, _)
Join(parts, sep) ==
    IF parts = <<>> THEN ""
    ELSE IF Len(parts) = 1 THEN parts[1]
    ELSE parts[1] \o sep \o Join(Tail(parts), sep)

\* sub in s
Contains(s, sub) ==
    \E i \in 1..(Len(s) - Len(sub) + 1) : SubSeq(s, i, i + Len(sub) - 1) = sub

\* s.replace(old, new), old non-empty: leftmost non-overlapping occurrences
RECURSIVE Replace(_, _, _)
Replace(s, old, new) ==
    LET occ == {i \in 1..(Len(s) - Len(old) + 1) :
                   SubSeq(s, i, i + Len(old) - 1) = old}
    IN  IF occ = {} THEN s
        ELSE Take(s, Min(occ) - 1) \o new
                 \o Replace(Drop(s, Min(occ) + Len(old) - 1), old, new)

\* re.sub(pattern, repl, s, flags=re.IGNORECASE) for a literal pattern of
\* ASCII characters: the matches are the occurrences of the lowered pattern
\* in the lowered text.
RECURSIVE SubLowered(_, _, _, _)
SubLowered(s, lowered, pattern, repl) ==
    LET occ == {i \in 1..(Len(s) - Len(pattern) + 1) :
                   SubSeq(lowered, i, i + Len(pattern) - 1) = pattern}
    IN  IF occ = {} THEN s
        ELSE LET next == Min(occ) + Len(pattern) - 1
             IN  Take(s, Min(occ) - 1) \o repl
                     \o SubLowered(Drop(s, next), Drop(lowered, next), pattern, repl)

SubIgnoreCase(s, pattern, repl) == SubLowered(s, Lower(s), Lower(pattern), repl)

Digits == "0123456789"

\* str(n) for an integer n
RECURSIVE NatToStr(_)
NatToStr(n) ==
    IF n < 10 THEN Ch(Digits, n + 1)
    ELSE NatToStr(n \div 10) \o Ch(Digits, (n % 10) + 1)

IntToStr(n) == IF n < 0 THEN "-" \o NatToStr(-n) ELSE NatToStr(n)

\* seq[start:] with Python's rule for a negative or too large start
PySliceFrom(seq, start) ==
    LET n == Len(seq)
        s == IF start < 0 THEN (IF n + start < 0 THEN 0 ELSE n + start)
             ELSE (IF start > n THEN n ELSE start)
    IN  SubSeq(seq, s + 1, n)

\* seq[::-1]
Reverse(seq) == [i \in 1..Len(seq) |-> seq[Len(seq) + 1 - i]]

\* re.split(r"(?<=[.!?])\s+", t): cut at every whitespace run that follows
\* one of . ! ?
RECURSIVE ReSplit(_)
ReSplit(t) ==
    LET cuts == {i \in 2..Len(t) :
                    IsSpace(Ch(t, i)) /\ Ch(t, i - 1) \in {".", "!", "?"}}
    IN  IF cuts = {} THEN <<t>>
        ELSE LET i == Min(cuts)
                 j == Min({k \in i..(Len(t) + 1) :
                              k = Len(t) + 1 \/ ~IsSpace(Ch(t, k))})
             IN  <<Take(t, i - 1)>> \o ReSplit(Drop(t, j - 1))

SelectNonBlank(parts) == SelectSeq(parts, LAMBDA s : Strip(s) # "")

SplitKeepsBlank(text) == ReSplit(Strip(text))

simple_sentence_split(text) ==
    LET kept == SelectNonBlank(ReSplit(Strip(text)))
    IN  [i \in 1..Len(kept) |-> Strip(kept[i])]

(***************************************************************************)
(* ingestion/chunker.py                                                    *)
(***************************************************************************)
\* A page map is the sequence of the dict's items, in insertion order.
RECURSIVE InferPageFrom(_, _, _, _)
InferPageFrom(pointer, page_map, i, cumulative) ==
    IF i > Len(page_map)
    THEN IntToStr(Max({page_map[j].number : j \in 1..Len(page_map)}))
    ELSE LET c == cumulative + Len(page_map[i].content)
         IN  IF pointer <= c THEN IntToStr(page_map[i].number)
             ELSE InferPageFrom(pointer, page_map, i + 1, c)

_infer_page(pointer, page_map) ==
    IF page_map = <<>> THEN "?" ELSE InferPageFrom(pointer, page_map, 1, 0)

RetrievedChunk(n, text, page) ==
    [chunk_id |-> "chunk_" \o IntToStr(n), text |-> text, page |-> page,
     embedding |-> None]

\* The loop of chunk_text from sentence i on, then the trailing window.
RECURSIVE ChunkLoop(_, _, _, _, _, _, _)
ChunkLoop(sentences, i, window, chunks, pointer, page_map, config) ==
    IF i > Len(sentences)
    THEN IF window # <<>>
         THEN Append(chunks, RetrievedChunk(Len(chunks), Join(window, " "),
                                            _infer_page(pointer, page_map)))
         ELSE chunks
    ELSE LET w == Append(window, sentences[i])
             ptr == pointer + Len(sentences[i])
             joined == Join(w, " ")
         IN  IF Len(joined) >= config.chunk_size
             THEN ChunkLoop(sentences, i + 1,
                    IF config.overlap > 0
                    THEN <<Join(PySliceFrom(Split(joined), -config.overlap), " ")>>
                    ELSE <<>>,
                    Append(chunks, RetrievedChunk(Len(chunks), joined,
                                                  _infer_page(ptr, page_map))),
                    ptr, page_map, config)
             ELSE ChunkLoop(sentences, i + 1, w, chunks, ptr, page_map, config)

ChunkTextDropsLast(full_text, page_map, config) ==
    LET sentences == simple_sentence_split(full_text)
    IN  IF sentences = <<>> THEN <<>>
        ELSE ChunkLoop(SubSeq(sentences, 1, Len(sentences) - 1), 1, <<>>, <<>>, 0,
                       page_map, config)

chunk_text(full_text, page_map, config) ==
    ChunkLoop(simple_sentence_split(full_text), 1, <<>>, <<>>, 0, page_map, config)

(***************************************************************************)
(* retrieval/vector_store.py, retrieval/retriever.py                       *)
(*                                                                         *)
(* Embeddings are integer vectors whose Euclidean norm is an integer, and  *)
(* a score is the cosine in thousandths.  The 1e-8 added to each norm      *)
(* makes the score of a zero vector 0 and scales the vectors of one norm   *)
(* alike, so the order of the scores is the order of these integers.       *)
(***************************************************************************)
RECURSIVE Dot(_, _)
Dot(a, b) == IF a = <<>> THEN 0 ELSE a[1] * b[1] + Dot(Tail(a), Tail(b))

Norm(v) ==
    LET sq == Dot(v, v)
    IN  CHOOSE n \in 0..sq : n * n <= sq /\ (n + 1) * (n + 1) > sq

cosine(d, q) ==
    IF Norm(d) = 0 \/ Norm(q) = 0 THEN 0
    ELSE (Dot(d, q) * 1000) \div (Norm(d) * Norm(q))

\* scores.argsort(): numpy's default sort is not stable, so every index
\* order that sorts the scores ascending is a possible result (0-based
\* indices are written 1-based).
Argsorts(scores) ==
    LET n == Len(scores)
    IN  {p \in [1..n -> 1..n] :
            /\ \A i, j \in 1..n : i # j => p[i] # p[j]
            /\ \A i \in 1..(n - 1) : scores[p[i]] <= scores[p[i + 1]]}

\* VectorStore.add
store_add(store, chunk, embedding) ==
    [chunks |-> Append(store.chunks, chunk),
     embeddings |-> Append(store.embeddings, embedding)]

\* VectorStore.similarity_search: the set of lists it may return
similarity_search(store, query_embedding, k) ==
    IF store.embeddings = <<>> THEN {<<>>}
    ELSE LET scores == [i \in 1..Len(store.embeddings) |->
                           cosine(store.embeddings[i], query_embedding)]
         IN  {LET best_idx == Reverse(PySliceFrom(p, -k))
              IN  [i \in 1..Len(best_idx) |->
                      [chunk |-> store.chunks[best_idx[i]],
                       score |-> scores[best_idx[i]]]]
              : p \in Argsorts(scores)}

\* Retriever.from_chunks, given what the embedding backend returned
RECURSIVE FromChunksLoop(_, _, _, _)
FromChunksLoop(chunks, embeddings, i, store) ==
    IF i > Len(chunks) \/ i > Len(embeddings) THEN store
    ELSE FromChunksLoop(chunks, embeddings, i + 1,
            store_add(store, [chunks[i] EXCEPT !.embedding = Some(embeddings[i])],
                      embeddings[i]))

\* VectorStore()
EmptyStore == [chunks |-> <<>>, embeddings |-> <<>>]

from_chunks(chunks, embeddings) ==
    FromChunksLoop(chunks, embeddings, 1, EmptyStore)

\* Retriever.query, given the embedding of the prompt
query(r, query_vector, k) == similarity_search(r, query_vector, k)

(***************************************************************************)
(* generation/safety.py                                                    *)
(***************************************************************************)
\* The terms are replaced in one fixed order: no term overlaps another or
\* the marker, so the iteration order of the Python set does not matter.
BLOCKED_TERMS == <<"hate", "kill", "slur">>

JARGON_MAP ==
    <<[jargon |-> "non-stationary diffusion", simple |-> "changing diffusion patterns"],
      [jargon |-> "anthropogenic", simple |-> "human-caused"]>>

RECURSIVE BlockTerms(_, _, _)
BlockTerms(text, lowered, i) ==
    IF i > Len(BLOCKED_TERMS) THEN text
    ELSE BlockTerms(IF Contains(lowered, BLOCKED_TERMS[i])
                    THEN Replace(text, BLOCKED_TERMS[i], "[removed]")
                    ELSE text,
                    lowered, i + 1)

RECURSIVE SubJargon(_, _)
SubJargon(text, i) ==
    IF i > Len(JARGON_MAP) THEN text
    ELSE SubJargon(SubIgnoreCase(text, JARGON_MAP[i].jargon,
                      JARGON_MAP[i].simple \o " (formerly \""
                          \o JARGON_MAP[i].jargon \o "\")"),
                   i + 1)

enforce_safety(text) == SubJargon(BlockTerms(text, Lower(text), 1), 1)

(***************************************************************************)
(* generation/generator.py: the rule-based strategy                        *)
(***************************************************************************)
\* A slide table whose 5min entry is the 90s one
SlideBudgetFiveMinAsNinety(duration) ==
    CASE duration = "30s" -> 3
      [] duration = "90s" -> 5
      [] duration = "5min" -> 5

SLIDE_BUDGET(duration) ==
    CASE duration = "30s" -> 3
      [] duration = "90s" -> 5
      [] duration = "5min" -> 7

SCRIPT_SENTENCES(duration) ==
    CASE duration = "30s" -> 6
      [] duration = "90s" -> 14
      [] duration = "5min" -> 30

_style_prefix(style) ==
    CASE style = "technical" -> "Technical insight:"
      [] style = "plain" -> "Plain-language take:"
      [] style = "press" -> "Headline:"
      [] OTHER -> "Insight:"

ContentBlock(text, provenance) == [text |-> text, provenance |-> provenance]

_apply_style(block, style, prefix, index) ==
    ContentBlock(
        IF prefix
        THEN "Slide " \o IntToStr(index) \o " - " \o _style_prefix(style)
                 \o " " \o block.text
        ELSE _style_prefix(style) \o " " \o block.text,
        block.provenance)

\* One block for the whole text of a retrieval match, not split
SentenceBlocksUnsplit(r) ==
    <<[text |-> enforce_safety(r.chunk.text),
       provenance |-> <<[chunk_id |-> r.chunk.chunk_id, page |-> r.chunk.page,
                         score |-> r.score]>>]>>

\* The sentence blocks of one retrieval match (the inner loop, lines 58-64)
SentenceBlocks(r) ==
    LET split == simple_sentence_split(r.chunk.text)
    IN  [i \in 1..Len(split) |->
            ContentBlock(enforce_safety(split[i]),
                         <<[chunk_id |-> r.chunk.chunk_id, page |-> r.chunk.page,
                            score |-> r.score]>>)]

RECURSIVE FlattenSeq(_)
FlattenSeq(ss) == IF ss = <<>> THEN <<>> ELSE Head(ss) \o FlattenSeq(Tail(ss))

Sentences(retrievals) ==
    FlattenSeq([i \in 1..Len(retrievals) |-> SentenceBlocks(retrievals[i])])

Metadata(instruction, config, audience) ==
    [instruction |-> instruction, audience |-> audience.label,
     style |-> audience.style, duration |-> config.duration]

\* RuleBasedGenerator.generate_outputs: the five lists of blocks, as values.
\* Every block of the result is an object of its own: script holds the
\* sentence blocks themselves, the other lists hold blocks built from them.
RuleBased_generate_outputs(instruction, retrievals, config, audience) ==
    LET sentences == Sentences(retrievals)
        script_budget == SCRIPT_SENTENCES(config.duration)
        slides_budget == SLIDE_BUDGET(config.duration)
        n == Min({slides_budget, Len(sentences)})
        forTweets == Take(sentences, slides_budget * 2)
        chunk == Take(sentences, 5)
    IN  [slides |-> [i \in 1..n |-> _apply_style(sentences[i], audience.style, TRUE, i)],
         script |-> Take(sentences, script_budget),
         notes |->
            IF config.include_speaker_notes
            THEN [i \in 1..n |->
                    ContentBlock("Speaker note " \o IntToStr(i) \o ": Expand on "
                                     \o sentences[i].text \o " with a visual cue.",
                                 sentences[i].provenance)]
            ELSE <<>>,
         tweets |->
            IF config.include_tweets
            THEN [i \in 1..Len(forTweets) |->
                    ContentBlock(
                        Take(forTweets[i].text \o " ("
                                 \o forTweets[i].provenance[1].chunk_id \o "@p"
                                 \o forTweets[i].provenance[1].page \o ")", 260),
                        forTweets[i].provenance)]
            ELSE <<>>,
         linkedin_summaries |->
            IF config.include_linkedin
            THEN <<ContentBlock(
                     Take(Join([i \in 1..Len(chunk) |-> chunk[i].text], " "), 900),
                     FlattenSeq([i \in 1..Len(chunk) |-> chunk[i].provenance]))>>
            ELSE <<>>,
         metadata |-> Metadata(instruction, config, audience)]

(***************************************************************************)
(* generation/generator.py: the model-backed strategy                      *)
(*                                                                         *)
(* A JSON value is [t, v]: t is "str", "num", "null", "list" or "dict";    *)
(* v is the string, the integer, <<>>, the sequence of items, or the       *)
(* sequence of [k, v] members.  json_loads is json.loads on the replies    *)
(* the language model is taken to give (LMReplies), reply by reply.        *)
(***************************************************************************)
JStr(s) == [t |-> "str", v |-> s]
JNum(n) == [t |-> "num", v |-> n]
JList(items) == [t |-> "list", v |-> items]
JDict(members) == [t |-> "dict", v |-> members]

ReplyProse == "Here are your slides: 1) Intro"
ReplyEcho == "{\"prompt_echo\": \"keys: slides, script\"}"
ReplyList == "[\"Intro\"]"
ReplyFull ==
    "{\"slides\": [\"Intro\"], \"script\": [{\"text\": \"Hello.\", \"provenance\": [{\"chunk_id\": \"chunk_9\"}]}]}"

ReplyEmpty == ""
ReplyBadScore ==
    "{\"notes\": [{\"text\": \"N\", \"provenance\": [{\"score\": \"high\"}]}]}"
ReplyNumber == "{\"slides\": 5}"

LMReplies == {ReplyProse, ReplyEmpty, ReplyEcho, ReplyList, ReplyFull,
              ReplyBadScore, ReplyNumber}

\* The replies a session's language model gives
SessionReplies == {ReplyEcho, ReplyList, ReplyFull}

json_loads(raw) ==
    CASE raw = ReplyProse -> [ok |-> FALSE, data |-> None]
      [] raw = ReplyEmpty -> [ok |-> FALSE, data |-> None]
      [] raw = ReplyBadScore ->
            [ok |-> TRUE,
             data |-> Some(JDict(<<
                [k |-> "notes", v |-> JList(<<JDict(<<
                    [k |-> "text", v |-> JStr("N")],
                    [k |-> "provenance", v |-> JList(<<JDict(<<
                        [k |-> "score", v |-> JStr("high")]>>)>>)]>>)>>)]>>))]
      [] raw = ReplyNumber ->
            [ok |-> TRUE,
             data |-> Some(JDict(<<[k |-> "slides", v |-> JNum(5)]>>))]
      [] raw = ReplyEcho ->
            [ok |-> TRUE,
             data |-> Some(JDict(<<[k |-> "prompt_echo",
                                    v |-> JStr("keys: slides, script")]>>))]
      [] raw = ReplyList -> [ok |-> TRUE, data |-> Some(JList(<<JStr("Intro")>>))]
      [] raw = ReplyFull ->
            [ok |-> TRUE,
             data |-> Some(JDict(<<
                [k |-> "slides", v |-> JList(<<JStr("Intro")>>)],
                [k |-> "script", v |-> JList(<<JDict(<<
                    [k |-> "text", v |-> JStr("Hello.")],
                    [k |-> "provenance", v |-> JList(<<JDict(<<
                        [k |-> "chunk_id", v |-> JStr("chunk_9")]>>)>>)]>>)>>)]>>))]

\* d.get(key, default) on a dict value
DictGet(d, key, default) ==
    LET hits == {i \in 1..Len(d.v) : d.v[i].k = key}
    IN  IF hits = {} THEN default ELSE d.v[Max(hits)].v

\* The items a for loop draws from a JSON value, None when it is not iterable
IterItems(j) ==
    CASE j.t = "list" -> Some(j.v)
      [] j.t = "str" -> Some([i \in 1..Len(j.v) |-> JStr(Ch(j.v, i))])
      [] j.t = "dict" -> Some([i \in 1..Len(j.v) |-> JStr(j.v[i].k)])
      [] OTHER -> None

\* str(x)
PyStr(j) ==
    CASE j.t = "str" -> j.v
      [] j.t = "num" -> IntToStr(j.v)
      [] j.t = "null" -> "None"

\* A Provenance from one entry of a "provenance" list; err names what raises
ProvOf(prov) ==
    IF prov.t # "dict" THEN [err |-> Some("AttributeError"), prov |-> None]
    ELSE LET cid == DictGet(prov, "chunk_id", JStr("?"))
             page == DictGet(prov, "page", JStr("?"))
             score == DictGet(prov, "score", JNum(0))
         IN  IF score.t = "str" THEN [err |-> Some("ValueError"), prov |-> None]
             ELSE IF score.t # "num" THEN [err |-> Some("TypeError"), prov |-> None]
             ELSE [err |-> None,
                   prov |-> Some([chunk_id |-> PyStr(cid), page |-> PyStr(page),
                                  score |-> score.v * 1000])]

FirstErr(rs) ==
    LET bad == {i \in 1..Len(rs) : rs[i].err # None}
    IN  IF bad = {} THEN None ELSE rs[Min(bad)].err

\* One pass of the loop body of _blocks (lines 150-162)
BlockOf(item) ==
    IF item.t \notin {"str", "dict"}
    THEN [err |-> Some("AttributeError"), block |-> None]
    ELSE LET text == IF item.t = "str" THEN item.v
                     ELSE PyStr(DictGet(item, "text", JStr("")))
             provenance == IF item.t = "dict"
                           THEN DictGet(item, "provenance", [t |-> "null", v |-> <<>>])
                           ELSE [t |-> "null", v |-> <<>>]
             provs == IF provenance.t = "list"
                      THEN [i \in 1..Len(provenance.v) |-> ProvOf(provenance.v[i])]
                      ELSE <<>>
         IN  IF FirstErr(provs) # None THEN [err |-> FirstErr(provs), block |-> None]
             ELSE [err |-> None,
                   block |-> Some(ContentBlock(text,
                                [i \in 1..Len(provs) |-> provs[i].prov[1]]))]

\* _blocks(key)
_blocks(data, key) ==
    LET items == IterItems(DictGet(data, key, JList(<<>>)))
    IN  IF items = None THEN [err |-> Some("TypeError"), blocks |-> <<>>]
        ELSE LET bs == [i \in 1..Len(items[1]) |-> BlockOf(items[1][i])]
             IN  IF FirstErr(bs) # None THEN [err |-> FirstErr(bs), blocks |-> <<>>]
                 ELSE [err |-> None,
                       blocks |-> [i \in 1..Len(bs) |-> bs[i].block[1]]]

SectionKeys == <<"slides", "script", "notes", "tweets", "linkedin">>

\* A fallback that recovers the slides and the script only
FallbackPartial(instruction, retrievals, config, audience) ==
    [RuleBased_generate_outputs(instruction, retrievals, config, audience)
        EXCEPT !.notes = <<>>, !.tweets = <<>>, !.linkedin_summaries = <<>>]

\* The fallback on a reply that does not decode (lines 142-144)
Fallback(instruction, retrievals, config, audience) ==
    RuleBased_generate_outputs(instruction, retrievals, config, audience)

\* LLMGenerator.generate_outputs, given the language model's reply:
\* [status, output], status "ok" or the exception raised
LLM_generate_outputs(instruction, retrievals, config, audience, raw) ==
    LET parsed == json_loads(raw)
    IN  IF ~parsed.ok
        THEN [status |-> "ok",
              output |-> Some(Fallback(instruction, retrievals, config, audience))]
        ELSE IF parsed.data[1].t # "dict"
        THEN [status |-> "AttributeError", output |-> None]
        ELSE LET bs == [i \in 1..5 |-> _blocks(parsed.data[1], SectionKeys[i])]
             IN  IF FirstErr(bs) # None
                 THEN [status |-> FirstErr(bs)[1], output |-> None]
                 ELSE [status |-> "ok",
                       output |-> Some(
                          [slides |-> bs[1].blocks, script |-> bs[2].blocks,
                           notes |-> bs[3].blocks, tweets |-> bs[4].blocks,
                           linkedin_summaries |-> bs[5].blocks,
                           metadata |->
                              [instruction |-> instruction,
                               audience |-> audience.label,
                               style |-> audience.style,
                               duration |-> config.duration,
                               generator |-> "llm"]])]

(***************************************************************************)
(* ingestion/pdf_loader.py: load_document over the files of the model.     *)
(* No file of the model is a .pdf or a .json, so those two branches are    *)
(* not reached.                                                            *)
(***************************************************************************)
\* The three-sentence documents: s<i><j><k>.txt holds sentences i, j and k
\* of DocSentences, the last on a line of its own
DocSentences == <<"Solar is cheap.", "Is wind safe?", "Go on!", "We hate waste.">>

DocIndexes == 1..Len(DocSentences)

DocPath(i, j, k) == "s" \o NatToStr(i) \o NatToStr(j) \o NatToStr(k) \o ".txt"

DocContent(i, j, k) ==
    DocSentences[i] \o " " \o DocSentences[j] \o "\n" \o DocSentences[k]

DocPaths == {DocPath(i, j, k) : i, j, k \in DocIndexes}

DocFile(path) ==
    LET ijk == CHOOSE t \in DocIndexes \X DocIndexes \X DocIndexes :
                   DocPath(t[1], t[2], t[3]) = path
    IN  [path |-> path, content |-> DocContent(ijk[1], ijk[2], ijk[3])]

Files ==
    <<[path |-> "a.txt", content |-> "We hate waste.\nAn electrolyzer helps!"],
      [path |-> "empty.md", content |-> ""],
      [path |-> "c.doc", content |-> "Binary."]>>

Paths == {"a.txt", "empty.md", "c.doc", "gone.txt"}

\* Path.suffix.lower()
Suffix(path) ==
    LET dots == {i \in 1..Len(path) : Ch(path, i) = "."}
    IN  IF dots = {} THEN "" ELSE Lower(Drop(path, Max(dots) - 1))

\* str.splitlines() for "\n" line ends
RECURSIVE SplitLines(_)
SplitLines(t) ==
    LET nl == {i \in 1..Len(t) : Ch(t, i) = "\n"}
    IN  IF t = "" THEN <<>>
        ELSE IF nl = {} THEN <<t>>
        ELSE <<Take(t, Min(nl) - 1)>> \o SplitLines(Drop(t, Min(nl)))

load_document(path) ==
    LET hits == {i \in 1..Len(Files) : Files[i].path = path}
    IN  IF hits = {} /\ path \notin DocPaths
        THEN [status |-> "FileNotFoundError", text |-> "", page_map |-> <<>>]
        ELSE IF Suffix(path) \in {".tex", ".txt", ".md"}
        THEN LET text == IF hits = {} THEN DocFile(path).content
                         ELSE Files[Min(hits)].content
                 lines == SplitLines(text)
             IN  [status |-> "ok", text |-> text,
                  page_map |-> [i \in 1..Len(lines) |->
                                   [number |-> i, content |-> lines[i]]]]
        ELSE [status |-> "ValueError", text |-> "", page_map |-> <<>>]

(***************************************************************************)
(* pipeline.py                                                             *)
(***************************************************************************)
DefaultChunkConfig == [chunk_size |-> 500, overlap |-> 120]

\* A truncation to half the words with no floor
ShortenNoFloor(text) ==
    Join(Take(Split(text), Len(Split(text)) \div 2), " ") \o "..."

\* The "shorter" transform (lines 132-134)
Shorten(text) ==
    LET tokens == Split(text)
    IN  Join(Take(tokens, Max({5, Len(tokens) \div 2})), " ") \o "..."

\* The transforms with the truncation applied before the suffix
ApplyDirectiveShortenFirst(text, directive) ==
    LET directive_lower == Lower(directive)
        t1 == IF Contains(directive_lower, "less technical")
              THEN Replace(Replace(text, "electrolyzer", "hydrogen machine"),
                           "provenance", "source")
              ELSE text
        t2 == IF Contains(directive_lower, "shorter") THEN Shorten(t1) ELSE t1
    IN  IF Contains(directive_lower, "more visual")
        THEN t2 \o " [Add: photo cue or chart icon]"
        ELSE t2

_apply_directive(text, directive) ==
    LET directive_lower == Lower(directive)
        t1 == IF Contains(directive_lower, "less technical")
              THEN Replace(Replace(text, "electrolyzer", "hydrogen machine"),
                           "provenance", "source")
              ELSE text
        t2 == IF Contains(directive_lower, "more visual")
              THEN t1 \o " [Add: photo cue or chart icon]"
              ELSE t1
    IN  IF Contains(directive_lower, "shorter") THEN Shorten(t2) ELSE t2

\* A summary that counts the LinkedIn summaries where the tweets belong
SummaryCountsLinkedin(output) ==
    "Slides=" \o IntToStr(Len(output.slides)) \o ", script sentences="
        \o IntToStr(Len(output.script)) \o ", notes="
        \o IntToStr(Len(output.notes)) \o ", tweets="
        \o IntToStr(Len(output.linkedin_summaries))

\* The output's lists hold block addresses; the blocks are in the heap.
_summarise_output(output) ==
    "Slides=" \o IntToStr(Len(output.slides)) \o ", script sentences="
        \o IntToStr(Len(output.script)) \o ", notes="
        \o IntToStr(Len(output.notes)) \o ", tweets="
        \o IntToStr(Len(output.tweets))

ConversationTurn(role, content, output, change_record) ==
    [role |-> role, content |-> content, output_snapshot |-> output,
     change_record |-> change_record]

\* A log that keeps only its latest turn
LogTurnOverwrites(turns, role, content, output, change_record) ==
    <<[role |-> role, content |-> content, output_snapshot |-> output,
       change_record |-> change_record]>>

\* SaralChatbot._log_turn
_log_turn(turns, role, content, output, change_record) ==
    Append(turns, ConversationTurn(role, content, output, change_record))

\* ConversationLog.to_dict (without the session id)
to_dict(turns) ==
    [i \in 1..Len(turns) |->
        [role |-> turns[i].role, content |-> turns[i].content,
         change_record |-> turns[i].change_record]]

\* The blocks of a generator's result become objects of the heap: the
\* GenerationOutput holds their addresses.
Addresses(base, n) == [i \in 1..n |-> base + i]

Allocate(h, out) ==
    LET b1 == Len(h)
        b2 == b1 + Len(out.slides)
        b3 == b2 + Len(out.script)
        b4 == b3 + Len(out.notes)
        b5 == b4 + Len(out.tweets)
    IN  [heap |-> h \o out.slides \o out.script \o out.notes \o out.tweets
                    \o out.linkedin_summaries,
         output |-> [slides |-> Addresses(b1, Len(out.slides)),
                     script |-> Addresses(b2, Len(out.script)),
                     notes |-> Addresses(b3, Len(out.notes)),
                     tweets |-> Addresses(b4, Len(out.tweets)),
                     linkedin_summaries |-> Addresses(b5, Len(out.linkedin_summaries)),
                     metadata |-> out.metadata]]

\* What a call on the session did: "ok" and the value returned, or the
\* exception raised
Outcome(op, status, ret) == [op |-> op, status |-> status, ret |-> ret]

(***************************************************************************)
(* The inputs of the calls.                                                *)
(***************************************************************************)
Vectors == {<<3, 4>>}

ChunkConfigs == {None, Some([chunk_size |-> 20, overlap |-> 1])}

Requests == {"summarize"}

Audiences == {[label |-> "Public", style |-> "plain"]}

Configs ==
    {[duration |-> "30s", style |-> "plain", include_tweets |-> TRUE,
      include_linkedin |-> TRUE, include_speaker_notes |-> TRUE,
      safety_checks |-> TRUE]}

Sections == {"slides", "script", "notes", "tweets", "linkedin"}

Directives == {"Shorter, less technical", "make it more visual"}

(***************************************************************************)
(* The session: SaralChatbot                                               *)
(***************************************************************************)
Init ==
    /\ use_llm \in BOOLEAN
    /\ retriever = None
    /\ sources_path = None
    /\ current_output = None
    /\ heap = <<>>
    /\ conversation = <<>>
    /\ result = None
    /\ succeeded = 0
    /\ vstore = EmptyStore
    /\ found = None
    /\ probe = None

\* What no call on a session touches: the generator chosen at construction
\* and the objects outside the session
fixed == <<use_llm, vstore, found, probe>>

Unchanged == UNCHANGED <<retriever, sources_path, current_output, heap,
                         conversation, succeeded, fixed>>

\* ingest(path, chunk_config): load_document raises (line 52)
IngestLoadFails(path) ==
    /\ load_document(path).status # "ok"
    /\ result' = Some(Outcome("ingest", load_document(path).status, None))
    /\ Unchanged

\* ingest(path, chunk_config): the embedding backend raises in from_chunks
\* (line 55)
IngestEmbedFails(path) ==
    /\ load_document(path).status = "ok"
    /\ result' = Some(Outcome("ingest", "EmbeddingBackendError", None))
    /\ Unchanged

\* ingest(path, chunk_config) returns
IngestOk(path, chunk_config) ==
    LET loaded == load_document(path)
        config == IF chunk_config = None THEN DefaultChunkConfig ELSE chunk_config[1]
        chunks == chunk_text(loaded.text, loaded.page_map, config)
    IN  /\ loaded.status = "ok"
        /\ \E embeddings \in [1..Len(chunks) -> Vectors] :
              retriever' = Some(from_chunks(chunks, embeddings))
        /\ sources_path' = Some(path)
        /\ result' = Some(Outcome("ingest", "ok", None))
        /\ UNCHANGED <<current_output, heap, conversation, succeeded, fixed>>

ingest ==
    \E path \in Paths :
        \/ IngestLoadFails(path)
        \/ IngestEmbedFails(path)
        \/ \E chunk_config \in ChunkConfigs : IngestOk(path, chunk_config)

\* generate() with the user turn logged before the precondition is checked
GenerateNoRetrieverLogsFirst ==
    /\ retriever = None
    /\ conversation' = _log_turn(conversation, "user", "summarize", None, None)
    /\ result' = Some(Outcome("generate", "RuntimeError", None))
    /\ UNCHANGED <<retriever, sources_path, current_output, heap, succeeded, fixed>>

\* generate() with the user turn logged before the retriever is queried
GenerateEmbedFailsLogsFirst ==
    /\ retriever # None
    /\ conversation' = _log_turn(conversation, "user", "summarize", None, None)
    /\ result' = Some(Outcome("generate", "EmbeddingBackendError", None))
    /\ UNCHANGED <<retriever, sources_path, current_output, heap, succeeded, fixed>>

\* generate(): the precondition fails (lines 66-67)
GenerateNoRetriever ==
    /\ retriever = None
    /\ result' = Some(Outcome("generate", "RuntimeError", None))
    /\ Unchanged

\* generate(): the embedding backend raises in Retriever.query (line 68)
GenerateEmbedFails ==
    /\ retriever # None
    /\ result' = Some(Outcome("generate", "EmbeddingBackendError", None))
    /\ Unchanged

\* generate(): the language model raises in generate_outputs (line 69)
GenerateModelFails ==
    /\ retriever # None
    /\ use_llm
    /\ result' = Some(Outcome("generate", "LanguageModelError", None))
    /\ Unchanged

\* What self.generator.generate_outputs gives: [status, output]
generate_outputs(request, retrievals, config, audience, raw) ==
    IF use_llm
    THEN LLM_generate_outputs(request, retrievals, config, audience, raw)
    ELSE [status |-> "ok",
          output |-> Some(RuleBased_generate_outputs(request, retrievals, config,
                                                    audience))]

\* generate(): generate_outputs raises on the language model's reply (line 69)
GenerateParseFails(request, audience, config, top_k, query_vector, raw) ==
    /\ retriever # None
    /\ use_llm
    /\ \E retrievals \in query(retriever[1], query_vector, top_k) :
          LET got == generate_outputs(request, retrievals, config, audience, raw)
          IN  /\ got.status # "ok"
              /\ result' = Some(Outcome("generate", got.status, None))
    /\ Unchanged

\* generate() returns (lines 68-73), given the language model's reply
GenerateOk(request, audience, config, top_k, query_vector, raw) ==
    /\ retriever # None
    /\ succeeded < MaxCalls
    /\ \E retrievals \in query(retriever[1], query_vector, top_k) :
          LET got == generate_outputs(request, retrievals, config, audience, raw)
              made == Allocate(heap, got.output[1])
          IN  /\ got.status = "ok"
              /\ heap' = made.heap
              /\ current_output' = Some(made.output)
              /\ conversation' =
                     _log_turn(_log_turn(conversation, "user", request, None, None),
                               "assistant", _summarise_output(made.output),
                               Some(made.output), None)
              /\ result' = Some(Outcome("generate", "ok", Some(made.output)))
    /\ succeeded' = succeeded + 1
    /\ UNCHANGED <<retriever, sources_path, fixed>>

generate ==
    \/ GenerateNoRetriever
    \/ GenerateEmbedFails
    \/ GenerateModelFails
    \/ \E request \in Requests, audience \in Audiences, config \in Configs,
          top_k \in 0..MaxTopK, query_vector \in Vectors,
          raw \in (IF use_llm THEN SessionReplies ELSE {""}) :
          \/ GenerateParseFails(request, audience, config, top_k, query_vector, raw)
          \/ GenerateOk(request, audience, config, top_k, query_vector, raw)

\* The section_map of revise_section (lines 79-83)
section_map(output) ==
    [slides |-> output.slides, script |-> output.script, notes |-> output.notes]

ChangeRecord(directive, section, index, before, after) ==
    [user_request |-> directive,
     target_section |-> section \o "[" \o IntToStr(index) \o "]",
     before |-> before, after |-> after,
     rationale |-> "Applied directive '" \o directive \o "' via rule-based mutation."]

\* The checks of revise_section without the lower bound on the index
ReviseStatusNoLowerBound(section, index) ==
    IF current_output = None THEN "RuntimeError"
    ELSE IF section \notin DOMAIN section_map(current_output[1]) THEN "ValueError"
    ELSE IF ~(index < Len(section_map(current_output[1])[section]))
         THEN "IndexError"
    ELSE "ok"

\* The exception revise_section raises on these arguments (lines 77-88),
\* "ok" if none
ReviseStatus(section, index) ==
    IF current_output = None THEN "RuntimeError"
    ELSE IF section \notin DOMAIN section_map(current_output[1]) THEN "ValueError"
    ELSE IF ~(0 <= index /\ index < Len(section_map(current_output[1])[section]))
         THEN "IndexError"
    ELSE "ok"

ReviseFails(section, index) ==
    /\ ReviseStatus(section, index) # "ok"
    /\ result' = Some(Outcome("revise_section", ReviseStatus(section, index), None))
    /\ Unchanged

\* An assignment that reaches every block of the heap
SetTextEverywhere(h, address, text) ==
    [a \in DOMAIN h |-> [h[a] EXCEPT !.text = text]]

\* blocks[index].text = after (line 91)
SetText(h, address, text) == [h EXCEPT ![address].text = text]

\* revise_section returns (lines 89-102)
ReviseOk(section, index, directive) ==
    /\ succeeded < MaxCalls
    /\ ReviseStatus(section, index) = "ok"
    /\ LET blocks == section_map(current_output[1])[section]
           before == heap[blocks[index + 1]].text
           after == _apply_directive(before, directive)
           change == ChangeRecord(directive, section, index, before, after)
       IN  /\ heap' = SetText(heap, blocks[index + 1], after)
           /\ conversation' =
                  _log_turn(_log_turn(conversation, "user", directive, None, None),
                            "assistant",
                            "Updated " \o section \o "[" \o IntToStr(index) \o "]",
                            None, Some(change))
           /\ result' = Some(Outcome("revise_section", "ok", Some(change)))
    /\ succeeded' = succeeded + 1
    /\ UNCHANGED <<retriever, sources_path, current_output, fixed>>

revise_section ==
    \E section \in Sections, index \in (-1)..MaxIndex :
        \/ ReviseFails(section, index)
        \/ \E directive \in Directives : ReviseOk(section, index, directive)

\* save_conversation(path): writes the log, changes nothing of the session
save_conversation ==
    /\ result' = Some(Outcome("save_conversation", "ok", Some(to_dict(conversation))))
    /\ Unchanged

Next == ingest \/ generate \/ revise_section \/ save_conversation

Spec == Init /\ [][Next]_vars

(***************************************************************************)
(* A VectorStore on its own: chunks are added, then searched.              *)
(***************************************************************************)
SearchVectors == {<<5, 0>>, <<3, 4>>, <<0, 0>>}

InitSession ==
    /\ use_llm = FALSE
    /\ retriever = None
    /\ sources_path = None
    /\ current_output = None
    /\ heap = <<>>
    /\ conversation = <<>>
    /\ result = None
    /\ succeeded = 0

InitSearch ==
    /\ InitSession
    /\ vstore = EmptyStore
    /\ found = None
    /\ probe = None

VectorStoreAdd ==
    /\ Len(vstore.chunks) < MaxStore
    /\ \E embedding \in SearchVectors :
          vstore' = store_add(vstore,
                             RetrievedChunk(Len(vstore.chunks), "Some text.", "?"),
                             embedding)
    /\ found' = None
    /\ UNCHANGED <<sessionVars, probe>>

VectorStoreSearch ==
    /\ \E query_embedding \in SearchVectors, k \in 0..MaxTopK :
          \E results \in similarity_search(vstore, query_embedding, k) :
             found' = Some([query |-> query_embedding, k |-> k, results |-> results])
    /\ UNCHANGED <<sessionVars, vstore, probe>>

NextSearch == VectorStoreAdd \/ VectorStoreSearch

SpecSearch == InitSearch /\ [][NextSearch]_vars

(***************************************************************************)
(* The rule-based generator on its own, over every list of at most         *)
(* MaxMatches distinct matches of a pool and every configuration.          *)
(***************************************************************************)
\* A chunk text of LongChunkSentences short sentences: "S1. S2. ..."
LongChunkSentences == 32

LongChunkText ==
    Join([i \in 1..LongChunkSentences |-> "S" \o NatToStr(i) \o "."], " ")

MatchPool ==
    {[chunk |-> [chunk_id |-> "chunk_0", text |-> "We hate waste. Go on!",
                 page |-> "1", embedding |-> None], score |-> 1000],
     [chunk |-> [chunk_id |-> "chunk_3", text |-> LongChunkText,
                 page |-> "3", embedding |-> None], score |-> 300],
     [chunk |-> [chunk_id |-> "chunk_1", text |-> "Is it anthropogenic?",
                 page |-> "2", embedding |-> None], score |-> 600],
     [chunk |-> [chunk_id |-> "chunk_2", text |-> "Yes. No. Maybe. So? Fine! Ok.",
                 page |-> "?", embedding |-> None], score |-> 0]}

MatchLists ==
    UNION {{ms \in [1..n -> MatchPool] : \A i, j \in 1..n : i # j => ms[i] # ms[j]}
           : n \in 0..MaxMatches}

AllConfigs ==
    [duration : {"30s", "90s", "5min"}, style : {"plain"},
     include_tweets : BOOLEAN, include_linkedin : BOOLEAN,
     include_speaker_notes : BOOLEAN, safety_checks : {TRUE}]

AllAudiences == {[label |-> "Public", style |-> "plain"],
                 [label |-> "Press desk", style |-> "press"]}

InitRule ==
    /\ InitSession
    /\ vstore = EmptyStore
    /\ found = None
    /\ \E retrievals \in MatchLists, config \in AllConfigs, audience \in AllAudiences :
          probe = Some([args |-> [instruction |-> "summarize",
                                  retrievals |-> retrievals, config |-> config,
                                  audience |-> audience],
                        out |-> None])

RuleBasedCall ==
    /\ probe[1].out = None
    /\ probe' = Some([probe[1] EXCEPT !.out =
                        Some(RuleBased_generate_outputs(
                                probe[1].args.instruction, probe[1].args.retrievals,
                                probe[1].args.config, probe[1].args.audience))])
    /\ UNCHANGED <<sessionVars, vstore, found>>

NextRule == RuleBasedCall

SpecRule == InitRule /\ [][NextRule]_vars

(***************************************************************************)
(* The model-backed generator on its own, over the same arguments and      *)
(* every reply of the language model.                                      *)
(***************************************************************************)
InitLLM ==
    /\ InitSession
    /\ vstore = EmptyStore
    /\ found = None
    /\ \E retrievals \in MatchLists, config \in AllConfigs, audience \in AllAudiences,
          raw \in LMReplies :
          probe = Some([args |-> [instruction |-> "summarize",
                                  retrievals |-> retrievals, config |-> config,
                                  audience |-> audience, raw |-> raw],
                        out |-> None])

LLMCall ==
    /\ probe[1].out = None
    /\ probe' = Some([probe[1] EXCEPT !.out =
                        Some(LLM_generate_outputs(
                                probe[1].args.instruction, probe[1].args.retrievals,
                                probe[1].args.config, probe[1].args.audience,
                                probe[1].args.raw))])
    /\ UNCHANGED <<sessionVars, vstore, found>>

NextLLM == LLMCall

SpecLLM == InitLLM /\ [][NextLLM]_vars

(***************************************************************************)
(* _apply_directive on its own: one directive applied again and again to   *)
(* one text, as repeated revise_section calls on one block do.             *)
(***************************************************************************)
DirectiveWords ==
    <<"The", "electrolyzer", "makes", "hydrogen", "and", "logs", "provenance",
      "for", "every", "run", "of", "it">>

DirectiveTexts == {Join(Take(DirectiveWords, n), " ") : n \in 0..Len(DirectiveWords)}

AllDirectives ==
    {"shorter", "Make it SHORTER", "less technical", "more visual and shorter",
     "Shorter, more visual, less technical", "reword"}

InitDirective ==
    /\ InitSession
    /\ vstore = EmptyStore
    /\ found = None
    /\ \E text \in DirectiveTexts, directive \in AllDirectives :
          probe = Some([text |-> text, directive |-> directive, before |-> None,
                        applied |-> 0])

ApplyDirective ==
    /\ probe[1].applied < MaxApply
    /\ probe' = Some([text |-> _apply_directive(probe[1].text, probe[1].directive),
                      directive |-> probe[1].directive,
                      before |-> Some(probe[1].text),
                      applied |-> probe[1].applied + 1])
    /\ UNCHANGED <<sessionVars, vstore, found>>

NextDirective == ApplyDirective

SpecDirective == InitDirective /\ [][NextDirective]_vars

(***************************************************************************)
(* The end-to-end scenario: a three-sentence document is ingested with the *)
(* default ChunkConfig (chunk_size 500), generate() runs rule-based with   *)
(* top_k = 5, the plain audience, 30s and every flag on, then slide 0 is   *)
(* revised.                                                                *)
(***************************************************************************)
ScenarioTopK == 5

ScenarioConfig ==
    [duration |-> "30s", style |-> "plain", include_tweets |-> TRUE,
     include_linkedin |-> TRUE, include_speaker_notes |-> TRUE,
     safety_checks |-> TRUE]

ScenarioAudience == [label |-> "Public", style |-> "plain"]

InitScenario ==
    /\ InitSession
    /\ vstore = EmptyStore
    /\ found = None
    /\ probe = None

ScenarioIngest ==
    /\ retriever = None
    /\ \E path \in DocPaths : IngestOk(path, None)

ScenarioGenerate ==
    /\ current_output = None
    /\ \E query_vector \in Vectors :
          GenerateOk("summarize", ScenarioAudience, ScenarioConfig, ScenarioTopK,
                     query_vector, "")

ScenarioRevise == ReviseOk("slides", 0, "make it more visual")

NextScenario == ScenarioIngest \/ ScenarioGenerate \/ ScenarioRevise

SpecScenario == InitScenario /\ [][NextScenario]_vars

(***************************************************************************)
(* Claims                                                                  *)
(***************************************************************************)

\* The call the session served last
LastCall(op, status) ==
    result # None /\ result[1].op = op /\ result[1].status = status

\* The same, read in the state a step leads to
Served(op, status) ==
    result' # None /\ result'[1].op = op /\ result'[1].status = status

\* C1: after ingest() succeeds on a session that holds a generated output,
\* the output is discarded: there is no current output, and revise_section
\* fails with the "no generation available" error on every section and
\* index until generate() is called again.
C1_IngestDiscardsOutput ==
    LastCall("ingest", "ok") =>
        /\ current_output = None
        /\ \A section \in Sections, index \in (-1)..MaxIndex :
              ReviseStatus(section, index) = "RuntimeError"

\* C2: generate() on a session on which ingest() never succeeded fails with
\* the precondition error and leaves the current output (absent) and the
\* conversation log unchanged.
C2_GenerateBeforeIngest ==
    [][(retriever = None /\ result' # None /\ result'[1].op = "generate") =>
          /\ result'[1].status = "RuntimeError"
          /\ current_output = None
          /\ current_output' = None
          /\ conversation' = conversation]_vars

C2_Witness ==
    /\ LastCall("generate", "RuntimeError")
    /\ retriever = None
    /\ current_output = None
    /\ conversation = <<>>

\* C3: revise_section checks, in this order, that there is a current output
\* (RuntimeError), that the section is one of slides/script/notes
\* (ValueError; tweets and linkedin are rejected) and that the index is in
\* 0..len(section)-1 (IndexError; negative indices are rejected); a failing
\* call changes no block and appends no turn.
RevisableSections == {"slides", "script", "notes"}

C3_Expected(section, index) ==
    IF current_output = None THEN "RuntimeError"
    ELSE IF section \notin RevisableSections THEN "ValueError"
    ELSE IF index < 0 \/ index > Len(current_output[1][section]) - 1
         THEN "IndexError"
    ELSE "ok"

C3_ReviseChecks ==
    /\ [](\A section \in Sections, index \in (-1)..MaxIndex :
             ReviseStatus(section, index) = C3_Expected(section, index))
    /\ [][(result' # None /\ result'[1].op = "revise_section"
             /\ result'[1].status # "ok") =>
             /\ \E section \in Sections, index \in (-1)..MaxIndex :
                   C3_Expected(section, index) = result'[1].status
             /\ heap' = heap
             /\ current_output' = current_output
             /\ conversation' = conversation]_vars

C3_Witness ==
    /\ LastCall("revise_section", "IndexError")
    /\ current_output # None
    /\ Len(current_output[1].slides) > 0
    /\ Len(current_output[1].tweets) > 0
    /\ conversation # <<>>

\* C4: a successful revise_section(section, index, directive) changes only
\* the text of the addressed block (its provenance and every other block of
\* the five sections stay as they were), returns a ChangeRecord with
\* target_section "<section>[<index>]", before and after the block's text
\* before and after the call, and appends exactly a user turn holding the
\* directive and an assistant turn carrying that ChangeRecord.
C4_ReviseFrame ==
    [][Served("revise_section", "ok") =>
          \E section \in RevisableSections, index \in 0..MaxIndex,
             directive \in Directives :
             /\ current_output # None
             /\ index < Len(current_output[1][section])
             /\ LET address == current_output[1][section][index + 1]
                    change == result'[1].ret[1]
                IN  /\ DOMAIN heap' = DOMAIN heap
                    /\ \A a \in DOMAIN heap : a # address => heap'[a] = heap[a]
                    /\ heap'[address].provenance = heap[address].provenance
                    /\ current_output' = current_output
                    /\ change.target_section =
                           section \o "[" \o IntToStr(index) \o "]"
                    /\ change.before = heap[address].text
                    /\ change.after = heap'[address].text
                    /\ change.user_request = directive
                    /\ Len(conversation') = Len(conversation) + 2
                    /\ SubSeq(conversation', 1, Len(conversation)) = conversation
                    /\ conversation'[Len(conversation) + 1] =
                           [role |-> "user", content |-> directive,
                            output_snapshot |-> None, change_record |-> None]
                    /\ conversation'[Len(conversation) + 2].role = "assistant"
                    /\ conversation'[Len(conversation) + 2].change_record =
                           Some(change)]_vars

C4_Witness ==
    /\ LastCall("revise_section", "ok")
    /\ result[1].ret[1].before # result[1].ret[1].after
    /\ Len(heap) > 1
    /\ \E a \in DOMAIN heap : heap[a].text = result[1].ret[1].after
    /\ \E a \in DOMAIN heap : heap[a].provenance # <<>>

\* C5: a successful generate() stores the generator's result as the current
\* output and appends exactly two turns: a user turn whose content is the
\* request, then an assistant turn whose content is the
\* slides/script/notes/tweets count summary and whose snapshot is that
\* result.
C5_Summary(output) ==
    "Slides=" \o IntToStr(Len(output.slides))
        \o ", script sentences=" \o IntToStr(Len(output.script))
        \o ", notes=" \o IntToStr(Len(output.notes))
        \o ", tweets=" \o IntToStr(Len(output.tweets))

C5_GenerateStoresAndLogs ==
    [][Served("generate", "ok") =>
          /\ result'[1].ret # None
          /\ current_output' = result'[1].ret
          /\ Len(conversation') = Len(conversation) + 2
          /\ SubSeq(conversation', 1, Len(conversation)) = conversation
          /\ \E request \in Requests :
                conversation'[Len(conversation) + 1] =
                    [role |-> "user", content |-> request,
                     output_snapshot |-> None, change_record |-> None]
          /\ conversation'[Len(conversation) + 2] =
                 [role |-> "assistant",
                  content |-> C5_Summary(result'[1].ret[1]),
                  output_snapshot |-> result'[1].ret,
                  change_record |-> None]]_vars

C5_Witness ==
    /\ LastCall("generate", "ok")
    /\ Len(conversation) = 4
    /\ conversation[2].output_snapshot # None
    /\ conversation[2].output_snapshot # current_output
    /\ Len(current_output[1].tweets) # Len(current_output[1].linkedin_summaries)

\* C6: the conversation log is append-only over any sequence of calls,
\* successful or failing: the turns (role, content, change record) before a
\* call are a prefix of the turns after it, and the length of the log is
\* always twice the number of generate and revise_section calls that
\* succeeded.
C6_Turns(turns) ==
    [i \in 1..Len(turns) |->
        <<turns[i].role, turns[i].content, turns[i].change_record>>]

C6_LogAppendOnly ==
    /\ [](Len(conversation) = 2 * succeeded)
    /\ [][/\ Len(conversation') >= Len(conversation)
          /\ SubSeq(C6_Turns(conversation'), 1, Len(conversation)) =
                 C6_Turns(conversation)
          /\ succeeded' - succeeded =
                 IF \/ Served("generate", "ok")
                    \/ Served("revise_section", "ok")
                 THEN 1 ELSE 0]_vars

C6_Witness ==
    /\ Len(conversation) = 4
    /\ conversation[4].change_record # None
    /\ result # None
    /\ result[1].status # "ok"

\* C7: a generate() call that fails because the embedding backend or the
\* language model raises hands the error to the caller and leaves the
\* current output and the conversation log as they were before the call.
C7_BackendErrors == {"EmbeddingBackendError", "LanguageModelError"}

C7_BackendFailureIsAtomic ==
    [][(result' # None /\ result'[1].op = "generate"
          /\ result'[1].status \in C7_BackendErrors) =>
          /\ current_output' = current_output
          /\ heap' = heap
          /\ conversation' = conversation]_vars

C7_Witness ==
    /\ LastCall("generate", "LanguageModelError")
    /\ use_llm
    /\ current_output # None
    /\ Len(conversation) >= 2

\* C8: for every index of size n >= 0 and every k >= 0 (k = 0 included),
\* similarity_search(q, k) returns exactly min(k, n) results, hence at most
\* k, and an empty index returns the empty sequence.
C8_SearchReturnsMinKN ==
    found # None =>
        Len(found[1].results) = Min({found[1].k, Len(vstore.chunks)})

\* C9: similarity_search returns its results in non-increasing score order,
\* of two chunks of equal score the one added earlier comes first, and the
\* k returned are the k best under that order.
AddedAt(chunk) == CHOOSE i \in 1..Len(vstore.chunks) : vstore.chunks[i].chunk_id = chunk.chunk_id

Better(i, si, j, sj) == si > sj \/ (si = sj /\ i < j)

C9_SearchOrderTiesByInsertion ==
    found # None =>
        LET rs == found[1].results
            pos == [i \in 1..Len(rs) |-> AddedAt(rs[i].chunk)]
            scoreOf == [i \in 1..Len(vstore.chunks) |->
                           cosine(vstore.embeddings[i], found[1].query)]
        IN  /\ \A i \in 1..(Len(rs) - 1) :
                  Better(pos[i], rs[i].score, pos[i + 1], rs[i + 1].score)
            /\ \A i \in 1..Len(rs) : \A j \in 1..Len(vstore.chunks) :
                  (\A m \in 1..Len(rs) : pos[m] # j) =>
                      Better(pos[i], rs[i].score, j, scoreOf[j])

\* C10: every ContentBlock the rule-based strategy emits, in each of the
\* five sections, for every combination of include flags and every
\* retrieval list (the empty one included), has non-empty provenance whose
\* chunk ids are all chunk ids of the retrieval matches it was given.
OutputBlocks(out) ==
    out.slides \o out.script \o out.notes \o out.tweets \o out.linkedin_summaries

C10_RuleBasedProvenance ==
    (probe # None /\ probe[1].out # None) =>
        LET given == {probe[1].args.retrievals[i].chunk.chunk_id :
                         i \in 1..Len(probe[1].args.retrievals)}
            blocks == OutputBlocks(probe[1].out[1])
        IN  \A b \in 1..Len(blocks) :
               /\ blocks[b].provenance # <<>>
               /\ \A p \in 1..Len(blocks[b].provenance) :
                     blocks[b].provenance[p].chunk_id \in given

\* C11: every GenerationOutput stored as a session's current output,
\* whichever strategy produced it, has in each block only provenance
\* entries that name a chunk id of the session's index as it was when
\* generate() ran (generate() does not change the index).
C11_ProvenanceNamesIndexedChunks ==
    LastCall("generate", "ok") =>
        LET indexed == {retriever[1].chunks[i].chunk_id :
                           i \in 1..Len(retriever[1].chunks)}
            blocks == OutputBlocks(current_output[1])
        IN  \A b \in 1..Len(blocks) :
               \A p \in 1..Len(heap[blocks[b]].provenance) :
                  heap[blocks[b]].provenance[p].chunk_id \in indexed

\* C12 (as stated): in the end-to-end scenario the output has exactly 1
\* slide, at most 6 script sentences and at most 2 tweets.
C12_ScenarioOneSlide ==
    LastCall("generate", "ok") =>
        /\ Len(current_output[1].slides) = 1
        /\ Len(current_output[1].script) <= 6
        /\ Len(current_output[1].tweets) <= 2

\* C12 (amended): in the end-to-end scenario the document gives 1 chunk and
\* the output has exactly 3 slides (the 3 sentences of the chunk, within
\* the budget of 3), at most 6 script sentences and at most 3 tweets.
C12_ScenarioThreeSlides ==
    /\ retriever # None => Len(retriever[1].chunks) = 1
    /\ LastCall("generate", "ok") =>
          /\ Len(current_output[1].slides) = 3
          /\ Len(current_output[1].script) <= 6
          /\ Len(current_output[1].tweets) <= 3

C12_Witness ==
    /\ LastCall("generate", "ok")
    /\ Len(retriever[1].chunks) = 1
    /\ Len(simple_sentence_split(retriever[1].chunks[1].text)) = 3
    /\ Len(current_output[1].slides) = 3
    /\ Len(current_output[1].tweets) = 3

\* C13: for each duration, rule-based generation over N safety-filtered
\* sentences yields exactly min(slide budget, N) slides and exactly
\* min(script budget, N) script blocks, the slide budgets being 3, 5, 7 and
\* the script budgets 6, 14, 30 for 30s, 90s, 5min (so N >= 10 gives 3
\* slides and at most 6 script sentences for 30s, 7 slides and at most 30
\* script sentences for 5min); the script blocks are the first sentences in
\* retrieval order, unprefixed.
C13_SlideBudget == [d \in {"30s", "90s", "5min"} |->
                       IF d = "30s" THEN 3 ELSE IF d = "90s" THEN 5 ELSE 7]

C13_ScriptBudget == [d \in {"30s", "90s", "5min"} |->
                        IF d = "30s" THEN 6 ELSE IF d = "90s" THEN 14 ELSE 30]

C13_Filtered(retrievals) ==
    LET split == FlattenSeq([i \in 1..Len(retrievals) |->
                                simple_sentence_split(retrievals[i].chunk.text)])
    IN  [i \in 1..Len(split) |-> enforce_safety(split[i])]

C13_Budgets ==
    (probe # None /\ probe[1].out # None) =>
        LET d == probe[1].args.config.duration
            filtered == C13_Filtered(probe[1].args.retrievals)
            N == Len(filtered)
            out == probe[1].out[1]
        IN  /\ Len(out.slides) = Min({C13_SlideBudget[d], N})
            /\ Len(out.script) = Min({C13_ScriptBudget[d], N})
            /\ (N >= 10 /\ d = "30s") => Len(out.slides) = 3 /\ Len(out.script) <= 6
            /\ (N >= 10 /\ d = "5min") => Len(out.slides) = 7 /\ Len(out.script) <= 30
            /\ \A i \in 1..Len(out.script) : out.script[i].text = filtered[i]

C13_Witness ==
    /\ probe # None
    /\ probe[1].out # None
    /\ probe[1].args.config.duration = "5min"
    /\ Len(C13_Filtered(probe[1].args.retrievals)) > 30
    /\ Len(probe[1].out[1].slides) = 7
    /\ Len(probe[1].out[1].script) = 30

\* C14: whatever text the language model returns, the model-backed strategy
\* returns a well-formed GenerationOutput and never raises (missing or
\* malformed provenance fields default to "?" and 0.0, text that is not
\* JSON falls back to the rule-based strategy).
C14_NeverRaises ==
    (probe # None /\ probe[1].out # None) =>
        /\ probe[1].out[1].status = "ok"
        /\ probe[1].out[1].output # None

\* C15: when the reply is not valid structured data, the output of the
\* model-backed strategy is identical (five sections, every block's text
\* and provenance, metadata without a generator tag) to that of the
\* rule-based strategy on the same instruction, retrievals, config and
\* audience; the metadata key generator = "llm" is present only on the
\* path where the reply parsed.
C15_NotStructured == {ReplyProse, ReplyEmpty}

C15_FallbackIsRuleBased ==
    (probe # None /\ probe[1].out # None /\ probe[1].out[1].status = "ok") =>
        LET args == probe[1].args
            out == probe[1].out[1].output[1]
        IN  IF args.raw \in C15_NotStructured
            THEN /\ out = RuleBased_generate_outputs(args.instruction, args.retrievals,
                                                    args.config, args.audience)
                 /\ "generator" \notin DOMAIN out.metadata
            ELSE /\ "generator" \in DOMAIN out.metadata
                 /\ out.metadata.generator = "llm"

C15_Witness ==
    /\ probe # None
    /\ probe[1].out # None
    /\ probe[1].args.raw = ReplyProse
    /\ probe[1].out[1].status = "ok"
    /\ Len(probe[1].out[1].output[1].tweets) > 0
    /\ Len(probe[1].out[1].output[1].linkedin_summaries) > 0

\* C16 (as stated): each application of a "shorter" directive to a block strictly
\* decreases its word count while it has more than 5 words; at the 5-word
\* floor, or below it, a further application leaves the word count
\* unchanged and yields nothing beyond the floor text plus one ellipsis.
C16_ShorterOnly == {"shorter", "Make it SHORTER"}

C16_ShorterDecreasesToFloor ==
    (probe # None /\ probe[1].before # None
        /\ probe[1].directive \in C16_ShorterOnly) =>
        LET words == Split(probe[1].before[1])
            after == Split(probe[1].text)
        IN  /\ Len(words) > 5 => Len(after) < Len(words) /\ Len(after) >= 5
            /\ Len(words) <= 5 =>
                  /\ Len(after) = Len(words)
                  /\ probe[1].text = Join(words, " ") \o "..."

\* C16 (amended): the same for a block of at least one word; on a block of
\* no word at all the ellipsis becomes its first word.
C16_ShorterOnWords ==
    (probe # None /\ probe[1].before # None
        /\ probe[1].directive \in C16_ShorterOnly
        /\ Len(Split(probe[1].before[1])) >= 1) =>
        LET words == Split(probe[1].before[1])
            after == Split(probe[1].text)
        IN  /\ Len(words) > 5 => Len(after) < Len(words) /\ Len(after) >= 5
            /\ Len(words) <= 5 =>
                  /\ Len(after) = Len(words)
                  /\ probe[1].text = Join(words, " ") \o "..."

C16_Witness ==
    /\ probe # None
    /\ probe[1].directive = "shorter"
    /\ probe[1].applied = 2
    /\ Len(Split(probe[1].before[1])) = 5
    /\ Len(Split(probe[1].text)) = 5
    /\ probe[1].text = probe[1].before[1] \o "..."

(***************************************************************************)
(* The chunker on its own: documents of up to MaxSentences sentences, a   *)
(* whitespace-only document and one with irregular spacing, chunked with   *)
(* chunk sizes below, between and above the document lengths and with     *)
(* overlaps of 0, 1 and 3 words.                                           *)
(***************************************************************************)
MaxSentences == 3

ChunkSeqs == UNION {[1..n -> DocIndexes] : n \in 0..MaxSentences}

ChunkDocs ==
    {Join([i \in 1..Len(q) |-> DocSentences[q[i]]], " ") : q \in ChunkSeqs}
        \cup {" \n ", "Go on!  We hate\nwaste.\n Is wind safe?"}

ChunkSizes == {1, 20, 500}

Overlaps == {0, 1, 3}

LinePages(text) ==
    LET lines == SplitLines(text)
    IN  [i \in 1..Len(lines) |-> [number |-> i, content |-> lines[i]]]

InitChunk ==
    /\ InitSession
    /\ vstore = EmptyStore
    /\ found = None
    /\ \E text \in ChunkDocs, chunk_size \in ChunkSizes, overlap \in Overlaps :
          probe = Some([text |-> text,
                        config |-> [chunk_size |-> chunk_size, overlap |-> overlap],
                        out |-> None])

ChunkCall ==
    /\ probe[1].out = None
    /\ probe' = Some([probe[1] EXCEPT
                        !.out = Some(chunk_text(probe[1].text,
                                                LinePages(probe[1].text),
                                                probe[1].config))])
    /\ UNCHANGED <<sessionVars, vstore, found>>

NextChunk == ChunkCall

SpecChunk == InitChunk /\ [][NextChunk]_vars

\* The words a chunk carries over from the chunk emitted before it: the last
\* `overlap` words of that chunk's text, none when overlap is 0.
CarriedOverlap(chunks, i, overlap) ==
    IF i = 1 \/ overlap = 0 THEN ""
    ELSE Join(PySliceFrom(Split(chunks[i - 1].text), -overlap), " ")

\* Chunk i's text once its carried overlap is dropped from its start.
FreshText(chunks, i, overlap) ==
    LStrip(Drop(chunks[i].text, Len(CarriedOverlap(chunks, i, overlap))))

\* The ways of cutting the sentence sequence into one consecutive run per chunk
\* (cut[i] is the number of sentences used up by chunks 1..i) such that every
\* chunk is its carried overlap followed by its run.
SentenceCuts(chunks, sentences, overlap) ==
    {cut \in [0..Len(chunks) -> 0..Len(sentences)] :
        /\ cut[0] = 0
        /\ cut[Len(chunks)] = Len(sentences)
        /\ \A i \in 1..Len(chunks) :
              /\ cut[i - 1] <= cut[i]
              /\ Take(chunks[i].text, Len(CarriedOverlap(chunks, i, overlap)))
                    = CarriedOverlap(chunks, i, overlap)
              /\ FreshText(chunks, i, overlap)
                    = Join(SubSeq(sentences, cut[i - 1] + 1, cut[i]), " ")}

\* C17: chunk_text numbers its chunks chunk_0, chunk_1, ... in emission order,
\* and the chunk texts, each without the overlap carried from the chunk before,
\* are consecutive runs of the input's sentences that together make up the
\* whole sentence sequence, in order.
C17_ChunksReconstructSentences ==
    (probe # None /\ probe[1].out # None) =>
        LET chunks == probe[1].out[1]
        IN  /\ \A i \in 1..Len(chunks) :
                  chunks[i].chunk_id = "chunk_" \o IntToStr(i - 1)
            /\ SentenceCuts(chunks, simple_sentence_split(probe[1].text),
                            probe[1].config.overlap) # {}

\* Three sentences cut into two or more chunks that carry an overlap.
C17_Witness ==
    /\ probe # None
    /\ probe[1].out # None
    /\ probe[1].config.overlap > 0
    /\ Len(simple_sentence_split(probe[1].text)) = 3
    /\ Len(probe[1].out[1]) >= 2
    /\ C17_ChunksReconstructSentences

\* C18: chunk_text yields no chunks for an empty or whitespace-only text; one
\* chunk, whatever the overlap, for a document with a sentence in it that is
\* shorter than chunk_size; and with overlap 0 chunks that are non-empty runs
\* of sentences, so that each sentence is in exactly one chunk.
C18_BoundaryCases ==
    (probe # None /\ probe[1].out # None) =>
        LET chunks == probe[1].out[1]
            text == probe[1].text
            config == probe[1].config
            sentences == simple_sentence_split(text)
        IN  /\ Strip(text) = "" => chunks = <<>>
            /\ (Strip(text) # "" /\ config.chunk_size > Len(text))
                  => Len(chunks) = 1
            /\ config.overlap = 0 =>
                  \E cut \in [0..Len(chunks) -> 0..Len(sentences)] :
                      /\ cut[0] = 0
                      /\ cut[Len(chunks)] = Len(sentences)
                      /\ \A i \in 1..Len(chunks) :
                            /\ cut[i - 1] < cut[i]
                            /\ chunks[i].text
                                  = Join(SubSeq(sentences, cut[i - 1] + 1, cut[i]), " ")

\* A whitespace-only text was chunked into nothing.
C18_Witness ==
    /\ probe # None
    /\ probe[1].out = Some(<<>>)
    /\ probe[1].text # ""
    /\ Strip(probe[1].text) = ""

\* C19: the block texts of an output recorded in a log turn are left as they
\* are by every later step, revise_section calls included: a snapshot keeps
\* the output as it was when its generate() returned.
C19_SnapshotsKeepTexts ==
    [][\A t \in 1..Len(conversation) :
          conversation[t].output_snapshot # None =>
             LET blocks == OutputBlocks(conversation[t].output_snapshot[1])
             IN  \A b \in 1..Len(blocks) :
                    heap'[blocks[b]].text = heap[blocks[b]].text]_vars

(***************************************************************************)
(* The safety filter on its own: sentences of up to MaxWords words, with   *)
(* blocklisted terms written in lower, capitalised and upper case, go      *)
(* through enforce_safety and, as the text of the one retrieved chunk,     *)
(* through the rule-based strategy.                                        *)
(***************************************************************************)
MaxWords == 3

SafetyWords == <<"We", "hate", "Hate", "KILL", "slurs", "waste">>

SafetySentences ==
    {Join([i \in 1..Len(q) |-> SafetyWords[q[i]]], " ") \o "." :
        q \in UNION {[1..n -> 1..Len(SafetyWords)] : n \in 1..MaxWords}}

SafetyMatch(sentence) ==
    [chunk |-> [chunk_id |-> "chunk_0", text |-> sentence, page |-> "1",
                embedding |-> None],
     score |-> 1000]

InitSafety ==
    /\ InitSession
    /\ vstore = EmptyStore
    /\ found = None
    /\ \E sentence \in SafetySentences :
          probe = Some([sentence |-> sentence, out |-> None])

SafetyCall ==
    /\ probe[1].out = None
    /\ LET output == RuleBased_generate_outputs("summarize",
                        <<SafetyMatch(probe[1].sentence)>>,
                        ScenarioConfig, ScenarioAudience)
       IN  probe' = Some([probe[1] EXCEPT !.out =
                            Some([safe |-> enforce_safety(probe[1].sentence),
                                  blocks |-> OutputBlocks(output)])])
    /\ UNCHANGED <<sessionVars, vstore, found>>

NextSafety == SafetyCall

SpecSafety == InitSafety /\ [][NextSafety]_vars

\* C20: a sentence that went through the safety filter holds no blocklisted
\* term in any letter case, and neither does the text of any block the
\* rule-based strategy makes of it.
C20_NoBlockedTermLeft ==
    (probe # None /\ probe[1].out # None) =>
        \A t \in 1..Len(BLOCKED_TERMS) :
           /\ ~Contains(Lower(probe[1].out[1].safe), BLOCKED_TERMS[t])
           /\ \A b \in 1..Len(probe[1].out[1].blocks) :
                 ~Contains(Lower(probe[1].out[1].blocks[b].text), BLOCKED_TERMS[t])

(***************************************************************************)
(* revise_section with every directive: a document is ingested, generate() *)
(* runs rule-based, and blocks of the three revisable sections are revised *)
(* with directives that match none, one, two or all three patterns, in     *)
(* either order and letter case.                                           *)
(***************************************************************************)
RevisePaths == {"a.txt", DocPath(1, 2, 3), DocPath(4, 3, 2)}

ReviseIngest ==
    /\ retriever = None
    /\ \E path \in RevisePaths, chunk_config \in ChunkConfigs :
          IngestOk(path, chunk_config)

ReviseGenerate ==
    /\ current_output = None
    /\ \E query_vector \in Vectors :
          GenerateOk("summarize", ScenarioAudience, ScenarioConfig, ScenarioTopK,
                     query_vector, "")

ReviseAny ==
    \E section \in Sections, index \in 0..MaxIndex, directive \in AllDirectives :
        ReviseOk(section, index, directive)

NextRevise == ReviseIngest \/ ReviseGenerate \/ ReviseAny

SpecRevise == InitScenario /\ [][NextRevise]_vars

\* C21: a revision applies every transform whose pattern the directive
\* contains, in any letter case and wherever it stands in the directive, in
\* one order: the jargon substitution, then the suffix
\* " [Add: photo cue or chart icon]", then the truncation of the suffixed
\* text to max(5, words/2) words plus "..."; a directive with none of the
\* patterns leaves the text as it was and still returns a ChangeRecord, with
\* before = after.
C21_TransformsInFixedOrder ==
    LastCall("revise_section", "ok") =>
        LET change == result[1].ret[1]
            d == Lower(change.user_request)
            technical == Contains(d, "less technical")
            visual == Contains(d, "more visual")
            shorter == Contains(d, "shorter")
            plain == IF technical
                     THEN Replace(Replace(change.before, "electrolyzer",
                                          "hydrogen machine"),
                                  "provenance", "source")
                     ELSE change.before
            suffixed == IF visual THEN plain \o " [Add: photo cue or chart icon]"
                        ELSE plain
            words == Split(suffixed)
            kept == IF Len(words) \div 2 > 5 THEN Len(words) \div 2 ELSE 5
            cut == IF shorter THEN Join(SubSeq(words, 1, Min({kept, Len(words)})), " ")
                                       \o "..."
                   ELSE suffixed
        IN  /\ result[1].ret # None
            /\ change.after = cut
            /\ (~technical /\ ~visual /\ ~shorter) => change.after = change.before

\* All three patterns, written in the reverse of the order they apply in, on
\* a block that names an electrolyzer: the jargon is replaced and the
\* truncation has cut into the suffix.
C21_Witness ==
    /\ LastCall("revise_section", "ok")
    /\ result[1].ret[1].user_request = "Shorter, more visual, less technical"
    /\ Contains(result[1].ret[1].before, "electrolyzer")
    /\ Contains(result[1].ret[1].after, "hydrogen machine")
    /\ Contains(result[1].ret[1].after, "[Add:")
    /\ ~Contains(result[1].ret[1].after, "icon]")
    /\ Len(Split(result[1].ret[1].after)) = 5

====
